---- MODULE Spec2Model ----
(***************************************************************************)
(* instant-coffee: a scheduled worker that polls a storefront listing,     *)
(* compares the available handles with one cached value and posts to a     *)
(* chat webhook.  src/src/index.ts holds two deployment variants of the    *)
(* worker: variant "A" (lines 1-132, joined-handle string cache) and       *)
(* variant "B" (lines 134-314, JSON handle-array cache).                   *)
(* Variant B also serves a preview image over HTTP: a signed token names   *)
(* the images, compositeImages (src/unnamed/part_000) lays them out.       *)
(*                                                                         *)
(* Strings the code inspects character by character (handles, the cache    *)
(* cell's text) are sequences of one-character strings; strings it only    *)
(* passes around (titles, prices) are TLA+ strings.                        *)
(***************************************************************************)
EXTENDS Integers, Sequences, FiniteSets, TLC

\* ------------------------------------------------------------------ bounds

\* Longest product list the upstream answers with.
MaxProducts == 2

\* The latest day a timestamp of a listing names, counted from day 1.
MaxStamp == 2

\* The most images a preview token names.
MaxImages == 3

\* ------------------------------------------------------- upstream listings

Variants == {"A", "B"}

\* JavaScript's null, for the values the code holds as Date | null.
NullDate == -1

\* Titles the storefront uses, in String.prototype.localeCompare order.
TitleRank(title) ==
    CASE title = "Alpha - Instant Coffee" -> 1
      [] title = "Bravo - Instant Coffee" -> 2
      [] title = "Charlie" -> 3
      [] OTHER -> 4

\* a.title.localeCompare(b.title) < 0, = 0, > 0 as -1, 0, 1.
LocaleCompare(a, b) ==
    IF TitleRank(a) < TitleRank(b) THEN -1
    ELSE IF TitleRank(a) > TitleRank(b) THEN 1 ELSE 0

\* title.replace(' - Instant Coffee', '')
StripSuffix(title) ==
    CASE title = "Alpha - Instant Coffee" -> "Alpha"
      [] title = "Bravo - Instant Coffee" -> "Bravo"
      [] OTHER -> title

\* The products of the collection: title, handle and price are fixed per
\* product; handles are slugs over letters and '-'.
Catalog ==
    { [title |-> "Bravo - Instant Coffee", handle |-> <<"a">>, price |-> "12.00"],
      [title |-> "Alpha - Instant Coffee", handle |-> <<"b">>, price |-> "9.50"],
      [title |-> "Charlie", handle |-> <<"a", "-", "b">>, price |-> "7.25"] }

Variant(c, avail, ts) ==
    [title |-> "Default Title", available |-> avail, price |-> c.price, updated_at |-> ts]

Product(c, variants, ts, images) ==
    [title |-> c.title, handle |-> c.handle, published_at |-> ts,
     variants |-> variants, images |-> images]

\* What one product of a schema-valid response may look like: one variant,
\* available (last updated on day 1) or sold out (on the later day 2); for
\* the first catalog product also no variant or two variants; for the
\* second also an empty images array.  Timestamps are days since the epoch.
ProductShapes(c) ==
    { Product(c, <<Variant(c, TRUE, 1)>>, 1, <<"img">>),
      Product(c, <<Variant(c, FALSE, 2)>>, 2, <<"img">>) }
    \cup (IF c.handle = <<"a">>
          THEN { Product(c, <<>>, 1, <<"img">>),
                 Product(c, <<Variant(c, TRUE, 1), Variant(c, FALSE, 1)>>, 1, <<"img">>) }
          ELSE {})
    \cup (IF c.handle = <<"b">>
          THEN { Product(c, <<Variant(c, TRUE, 1)>>, 1, <<>>) }
          ELSE {})

AllProducts == UNION { ProductShapes(c) : c \in Catalog }

\* Product lists of at most MaxProducts products with distinct handles.
Listings ==
    UNION { { l \in [1..n -> AllProducts] :
                \A i, j \in 1..n : i # j => l[i].handle # l[j].handle } :
            n \in 0..MaxProducts }

\* What the GET of PRODUCTS_ENDPOINT yields: a network failure, a body that
\* fails request.json() or ShopifyProductsSchema.parse, or a valid listing.
Responses ==
    { [status |-> "neterr", products |-> <<>>], [status |-> "schema", products |-> <<>>] }
    \cup { [status |-> "ok", products |-> l] : l \in Listings }

\* ------------------------------------------------- getAvailableCoffees

RECURSIVE Insert(_, _)
\* One insertion step of a stable sort with comparator
\* (a, b) => a.title.localeCompare(b.title).
Insert(x, sorted) ==
    IF sorted = <<>> THEN <<x>>
    ELSE IF LocaleCompare(x.title, Head(sorted).title) < 0 THEN <<x>> \o sorted
    ELSE <<Head(sorted)>> \o Insert(x, Tail(sorted))

RECURSIVE SortByTitle(_)
\* Array.prototype.sort((a, b) => a.title.localeCompare(b.title)): stable.
SortByTitle(s) ==
    IF s = <<>> THEN <<>>
    ELSE Insert(s[Len(s)], SortByTitle(SubSeq(s, 1, Len(s) - 1)))

RECURSIVE FilterAvailable(_)
\* product.variants.filter((variant) => variant.available)
FilterAvailable(vs) ==
    IF vs = <<>> THEN <<>>
    ELSE (IF Head(vs).available THEN <<Head(vs)>> ELSE <<>>) \o FilterAvailable(Tail(vs))

\* The Coffee built from one available variant.  Variant A's Coffee carries
\* updatedAt and no imageUrl, variant B's imageUrl and no updatedAt; the
\* field the variant does not have is NullDate / "".
CoffeeOf(v, product, variant) ==
    [title |-> product.title, handle |-> product.handle, price |-> variant.price,
     updatedAt |-> IF v = "A" THEN variant.updated_at ELSE NullDate,
     imageUrl |-> IF v = "B" THEN product.images[1] ELSE ""]

\* The flatMap callback, for a product with exactly one variant and (in
\* variant B) an image for every available variant: filter, map, and the
\* sort, which the code applies to this one product's Coffees.
CoffeesOfProduct(v, product) ==
    LET avail == FilterAvailable(product.variants)
    IN  SortByTitle([i \in 1..Len(avail) |-> CoffeeOf(v, product, avail[i])])

\* The error the flatMap callback throws for a product, "" if none:
\* the variant-count check, then (variant B) product.images[0].src of an
\* empty images array.
ProductError(v, product) ==
    IF Len(product.variants) # 1 THEN "variants"
    ELSE IF v = "B" /\ FilterAvailable(product.variants) # <<>> /\ product.images = <<>>
         THEN "typeerror"
    ELSE ""

RECURSIVE FlatMapCoffees(_, _)
\* products.flatMap(callback); [err, coffees], err the first error thrown.
FlatMapCoffees(v, products) ==
    IF products = <<>> THEN [err |-> "", coffees |-> <<>>]
    ELSE IF ProductError(v, Head(products)) # ""
         THEN [err |-> ProductError(v, Head(products)), coffees |-> <<>>]
    ELSE LET rest == FlatMapCoffees(v, Tail(products))
         IN  IF rest.err # "" THEN rest
             ELSE [err |-> "", coffees |-> CoffeesOfProduct(v, Head(products)) \o rest.coffees]

\* coffees.map((coffee) => coffee.handle)
Handles(coffees) == [i \in 1..Len(coffees) |-> coffees[i].handle]

RECURSIVE Join(_, _)
\* Array.prototype.join(sep) of an array of strings.
Join(strs, sep) ==
    IF strs = <<>> THEN <<>>
    ELSE IF Len(strs) = 1 THEN strs[1]
    ELSE strs[1] \o sep \o Join(Tail(strs), sep)

RECURSIVE FlatVariants(_)
\* products.flatMap((product) => product.variants)
FlatVariants(products) ==
    IF products = <<>> THEN <<>>
    ELSE Head(products).variants \o FlatVariants(Tail(products))

RECURSIVE ReduceLatest(_, _)
\* reduce((latest, x) => (new Date(x) > latest ? new Date(x) : latest), latest)
ReduceLatest(stamps, latest) ==
    IF stamps = <<>> THEN latest
    ELSE ReduceLatest(Tail(stamps), IF Head(stamps) > latest THEN Head(stamps) ELSE latest)

\* updatedAt reduced over the products that have an available variant only.
UpdatedAtOfAvailable(v, products) ==
    LET avail == SelectSeq(products, LAMBDA q : FilterAvailable(q.variants) # <<>>)
    IN  IF Len(products) = 0 THEN NullDate
        ELSE IF v = "A"
             THEN LET vs == FlatVariants(avail)
                  IN  ReduceLatest([i \in 1..Len(vs) |-> vs[i].updated_at], 0)
        ELSE ReduceLatest([i \in 1..Len(avail) |-> avail[i].published_at], 0)

\* updatedAt: variant A reduces the variants' updated_at, variant B the
\* products' published_at, both from new Date(0); null for no products.
UpdatedAt(v, products) ==
    IF Len(products) = 0 THEN NullDate
    ELSE IF v = "A"
         THEN LET vs == FlatVariants(products)
              IN  ReduceLatest([i \in 1..Len(vs) |-> vs[i].updated_at], 0)
    ELSE ReduceLatest([i \in 1..Len(products) |-> products[i].published_at], 0)

\* The value cacheRepr of the variant: A's joined string, B's handle array.
\* Both are kept as a sequence of the handles; CacheKey is A's string.
CacheKey(coffees) == Join(Handles(coffees), <<"-">>)

\* getAvailableCoffees after a successful fetch: [err, coffees, updatedAt].
GetAvailableCoffees(v, response) ==
    IF response.status = "neterr" THEN [err |-> "fetch", coffees |-> <<>>, updatedAt |-> NullDate]
    ELSE IF response.status = "schema" THEN [err |-> "schema", coffees |-> <<>>, updatedAt |-> NullDate]
    ELSE LET fm == FlatMapCoffees(v, response.products)
         IN  IF fm.err # "" THEN [err |-> fm.err, coffees |-> <<>>, updatedAt |-> NullDate]
             ELSE [err |-> "", coffees |-> fm.coffees,
                   updatedAt |-> UpdatedAt(v, response.products)]

\* ------------------------------------------------------------- the cache

\* The KV cell under CACHE_NAME: get answers null (some = FALSE) or a string.
Absent == [some |-> FALSE, text |-> <<>>]
Stored(text) == [some |-> TRUE, text |-> text]

\* JavaScript values JSON.parse yields: t the type, s the characters of a
\* string, number or literal, e the elements of an array.
JsNull == [t |-> "null", s |-> <<>>, e |-> <<>>]
JsStr(chars) == [t |-> "str", s |-> chars, e |-> <<>>]
JsNum(chars) == [t |-> "num", s |-> chars, e |-> <<>>]
JsBool(chars) == [t |-> "bool", s |-> chars, e |-> <<>>]
JsObj == [t |-> "obj", s |-> <<>>, e |-> <<>>]
JsArr(elems) == [t |-> "arr", s |-> <<>>, e |-> elems]

Quote == "\""
Digits == {"0", "1", "2", "3", "4", "5", "6", "7", "8", "9"}

\* JSON.stringify of a string without characters that need an escape.
StringifyString(chars) == <<Quote>> \o chars \o <<Quote>>

\* JSON.stringify(value) of an array of strings: ["a","a-b"].
JSONstringify(strs) ==
    <<"[">> \o Join([i \in 1..Len(strs) |-> StringifyString(strs[i])], <<",">>) \o <<"]">>

Drop(t, n) == SubSeq(t, n + 1, Len(t))
StartsWith(t, w) == Len(t) >= Len(w) /\ SubSeq(t, 1, Len(w)) = w
ParseFail == [ok |-> FALSE, val |-> JsNull, rest |-> <<>>]
Parsed(val, rest) == [ok |-> TRUE, val |-> val, rest |-> rest]

RECURSIVE TakeWhileIn(_, _)
\* The longest prefix of t whose characters are all in set.
TakeWhileIn(t, set) ==
    IF t = <<>> \/ Head(t) \notin set THEN <<>>
    ELSE <<Head(t)>> \o TakeWhileIn(Tail(t), set)

RECURSIVE TakeUntilQuote(_)
\* The characters of t before its first quote.
TakeUntilQuote(t) ==
    IF t = <<>> \/ Head(t) = Quote THEN <<>>
    ELSE <<Head(t)>> \o TakeUntilQuote(Tail(t))

\* A JSON number of the form -?(0|[1-9][0-9]*) at the head of t.
ParseNumber(t) ==
    LET neg == t # <<>> /\ Head(t) = "-"
        u == IF neg THEN Tail(t) ELSE t
        ds == TakeWhileIn(u, Digits)
        int == IF ds # <<>> /\ Head(ds) = "0" THEN <<"0">> ELSE ds
    IN  IF int = <<>> THEN ParseFail
        ELSE Parsed(JsNum((IF neg THEN <<"-">> ELSE <<>>) \o int), Drop(u, Len(int)))

\* A JSON string at the head of t (t starts with a quote).
ParseString(t) ==
    LET body == TakeUntilQuote(Tail(t))
    IN  IF Len(t) < Len(body) + 2 \/ "\\" \in { body[i] : i \in 1..Len(body) } THEN ParseFail
        ELSE Parsed(JsStr(body), Drop(t, Len(body) + 2))

RECURSIVE ParseValue(_)
RECURSIVE ParseElements(_, _)
\* JSON.parse's value grammar for texts without whitespace, escapes,
\* fractions, exponents and object members.
ParseValue(t) ==
    IF t = <<>> THEN ParseFail
    ELSE IF StartsWith(t, <<"n", "u", "l", "l">>) THEN Parsed(JsNull, Drop(t, 4))
    ELSE IF StartsWith(t, <<"t", "r", "u", "e">>) THEN Parsed(JsBool(<<"t">>), Drop(t, 4))
    ELSE IF StartsWith(t, <<"f", "a", "l", "s", "e">>) THEN Parsed(JsBool(<<"f">>), Drop(t, 5))
    ELSE IF StartsWith(t, <<"{", "}">>) THEN Parsed(JsObj, Drop(t, 2))
    ELSE IF StartsWith(t, <<"[", "]">>) THEN Parsed(JsArr(<<>>), Drop(t, 2))
    ELSE IF Head(t) = "[" THEN ParseElements(Tail(t), <<>>)
    ELSE IF Head(t) = Quote THEN ParseString(t)
    ELSE ParseNumber(t)

\* The elements of an array after its '[' or a ',': value (',' value)* ']'.
ParseElements(t, acc) ==
    LET r == ParseValue(t)
    IN  IF ~r.ok \/ r.rest = <<>> THEN ParseFail
        ELSE IF Head(r.rest) = "]" THEN Parsed(JsArr(Append(acc, r.val)), Tail(r.rest))
        ELSE IF Head(r.rest) = "," THEN ParseElements(Tail(r.rest), Append(acc, r.val))
        ELSE ParseFail

\* JSON.parse(text): ok = FALSE where it throws a SyntaxError.
JSONparse(text) ==
    LET r == ParseValue(text)
    IN  IF r.ok /\ r.rest = <<>> THEN r ELSE ParseFail

\* JavaScript truthiness of a parsed value.
Truthy(val) ==
    CASE val.t = "null" -> FALSE
      [] val.t = "bool" -> val.s = <<"t">>
      [] val.t = "num" -> val.s \notin {<<"0">>, <<"-", "0">>}
      [] val.t = "str" -> val.s # <<>>
      [] OTHER -> TRUE

\* cacheGet: value ? JSON.parse(value) : null, a SyntaxError caught as null.
cacheGet(cell) ==
    IF ~cell.some \/ cell.text = <<>> THEN JsNull
    ELSE LET r == JSONparse(cell.text) IN IF r.ok THEN r.val ELSE JsNull

\* cachePut: the text put under CACHE_NAME for a handle array.
cachePut(value) == Stored(JSONstringify(value))

\* Whether cachedCoffees?.join(',') throws a TypeError: the optional chain
\* stops on null only, and only arrays have a join.
JoinThrows(cached) == cached.t \notin {"null", "arr"}

\* arrayIsSubset(subset, arr) for an array of strings and a parsed array:
\* subset.every((item) => arr.includes(item)).
arrayIsSubset(subset, arr) ==
    \A i \in 1..Len(subset) : \E j \in 1..Len(arr.e) : arr.e[j] = JsStr(subset[i])

\* ------------------------------------------------------------ the message

Line(kind, title, price, at) == [kind |-> kind, title |-> title, price |-> price, at |-> at]

\* 'Black & White no longer has any instant coffees available.'
NoneLine == Line("none", "", "", NullDate)
\* 'Black & White has a new selection of instant coffees:'
HeaderLine == Line("header", "", "", NullDate)
\* `- ☕️ ${coffee.title.replace(' - Instant Coffee', '')} (${price})`
ItemLine(coffee) == Line("item", StripSuffix(coffee.title), "$" \o coffee.price, NullDate)
\* `→ [View the collection](...)`
FooterLine == Line("footer", "", "", NullDate)
\* `-# ... inventory last changed on <date> UTC.` / `... ET[.](<imageUrl>)`
UpdatedLine(v, at) == Line(IF v = "A" THEN "updatedUTC" ELSE "updatedETlink", "", "", at)

\* botMessage as pushed by the notify branch; in variant B the empty-list
\* line goes to sendDiagnostic and not into botMessage.
BotMessage(v, cs, at) ==
    (IF Len(cs) = 0
     THEN (IF v = "A" THEN <<NoneLine>> ELSE <<>>)
     ELSE <<HeaderLine>> \o [i \in 1..Len(cs) |-> ItemLine(cs[i])] \o <<FooterLine>>)
    \o (IF at # NullDate THEN <<UpdatedLine(v, at)>> ELSE <<>>)

\* ----------------------------------------------------------- the decision

\* cacheRepr of a variant: the joined string (A) or the handle array (B).
CacheRepr(v, cs) == IF v = "A" THEN CacheKey(cs) ELSE Handles(cs)

\* The value the tick reads from the cache: get(CACHE_NAME) (A), cacheGet (B).
ReadCache(v, kv) == IF v = "A" THEN kv ELSE cacheGet(kv)

\* ShouldSuppress with variant A's comparison written as
\* ((await get(CACHE_NAME)) ?? '') === cacheRepr: an absent cell reads as ''.
ShouldSuppressNullAsEmpty(v, read, repr) ==
    IF v = "A" THEN read.text = repr
    ELSE Truthy(read) /\ arrayIsSubset(repr, read)

\* The condition of the if that skips the notification:
\* A: (await get(CACHE_NAME)) === cacheRepr
\* B: cachedCoffees && arrayIsSubset(cacheRepr, cachedCoffees)
ShouldSuppress(v, read, repr) ==
    IF v = "A" THEN read.some /\ read.text = repr
    ELSE Truthy(read) /\ arrayIsSubset(repr, read)

\* The cell after the put of the notify branch took effect.
PutRepr(v, repr) == IF v = "A" THEN Stored(repr) ELSE cachePut(repr)

\* ------------------------------------------------------ the preview image

\* const pixelRatio = 2
pixelRatio == 2
\* const squareSize = 300 * pixelRatio
squareSize == 300 * pixelRatio
\* const spacing = 20 * pixelRatio
spacing == 20 * pixelRatio

\* const totalWidth = squareSize * numImages + spacing * (2 + numImages - 1)
TotalWidth(numImages) == squareSize * numImages + spacing * (2 + numImages - 1)
\* const totalHeight = squareSize + spacing * 2
TotalHeight == squareSize + spacing * 2

\* The white pixel transformed to { width: totalWidth, height: totalHeight, fit: 'pad' }.
Canvas(numImages) == [width |-> TotalWidth(numImages), height |-> TotalHeight]
NoCanvas == [width |-> 0, height |-> 0]

\* TileLeft with the gap between tiles left out of the stride.
TileLeftNoGap(index) == spacing + index * squareSize

\* const left = spacing + index * (squareSize + spacing); index counts from 0.
TileLeft(index) == spacing + index * (squareSize + spacing)

\* composite.draw(transformedImage, { left, top: spacing }) of the image
\* transformed to { width: squareSize, height: squareSize, fit: 'pad' }.
Draw(index, imageUrl) ==
    [url |-> imageUrl, left |-> TileLeft(index), top |-> spacing,
     width |-> squareSize, height |-> squareSize]

\* The secret of the deployment, and another one.
JwtSecret == "JWT_SECRET"
Secrets == {JwtSecret, "other"}

\* The signature jsonwebtoken computes over a payload with a secret.
Mac(images, secret) == [images |-> images, secret |-> secret]

\* jwt.sign({ images }, secret): the token carries the payload and its signature.
jwtSign(images, secret) == [images |-> images, mac |-> Mac(images, secret)]

\* Whether jwt.verify(token, secret) returns the payload (it throws otherwise).
jwtVerifies(token, secret) == token.mac = Mac(token.images, secret)

\* ---------------------------------------------------------------- state

VARIABLES
    variant,    \* which variant of the worker is deployed
    pc,         \* where scheduled() is
    cell,       \* the KV cell under CACHE_NAME
    startCell,  \* the cell when the tick began
    response,   \* what the upstream answers in this tick
    got,        \* how getAvailableCoffees ended: "" (not called), "ok", or its error
    coffees, cacheRepr, updatedAt,  \* result of getAvailableCoffees
    cached,     \* the value read from the cache
    decision,   \* "" | "suppress" | "notify"
    friendly,   \* POSTs to DISCORD_WEBHOOK_URL in this tick: [body, outcome]
    diag,       \* messages handed to sendDiagnostic in this tick
    err,        \* the error the catch block caught, "" if none
    thrown,     \* the error scheduled() rejected with, "" if none
    prev,       \* the previous tick: [ok, handles, kept]
    preview     \* the preview endpoint's request in progress

vars == <<variant, pc, cell, startCell, response, got, coffees, cacheRepr, updatedAt,
          cached, decision, friendly, diag, err, thrown, prev, preview>>

\* How a webhook POST ends: fetch resolves with a 2xx or a non-2xx
\* response, or rejects (network failure).
Outcomes == {"ok", "non2xx", "reject"}

\* The put of the notify branch is not awaited: it takes effect, or its
\* failure is dropped.
PutOutcomes == {"ok", "lost"}

NoResponse == [status |-> "none", products |-> <<>>]

\* The preview endpoint between requests.  param, token: the 'payload' query
\* parameter ("missing", "empty" or "token"); images: the verified list; canvas, draws, fetched: what
\* compositeImages built and fetched; status: the Response returned (0: none);
\* fault: the error fetch() rejected with.
NoToken == [images |-> <<>>, mac |-> Mac(<<>>, "")]
NoPreview ==
    [pc |-> "idle", param |-> "missing", token |-> NoToken, images |-> <<>>,
     canvas |-> NoCanvas, draws |-> <<>>, fetched |-> <<>>, status |-> 0, fault |-> ""]

\* ok: it ended without an error; handles: the handles of its Coffee list;
\* kept: it left its cacheRepr in the cell.
NoPrev == [ok |-> FALSE, handles |-> {}, kept |-> FALSE]

TickLocalsInit ==
    /\ got = "" /\ coffees = <<>> /\ cacheRepr = <<>> /\ updatedAt = NullDate
    /\ cached = Absent /\ decision = ""
    /\ friendly = <<>> /\ diag = <<>> /\ err = "" /\ thrown = ""

Init ==
    /\ variant \in Variants
    /\ pc = "idle"
    /\ cell = Absent /\ startCell = Absent
    /\ response = NoResponse
    /\ TickLocalsInit
    /\ prev = NoPrev
    /\ preview = NoPreview

\* The handles of the Coffee list, as a set.
HandleSet(cs) == { cs[i].handle : i \in 1..Len(cs) }

\* The scheduled trigger fires; at most one invocation runs at a time.
TickStart ==
    /\ pc = "idle"
    /\ pc' = "started"
    /\ response' \in Responses
    /\ startCell' = cell
    /\ UNCHANGED <<preview, variant, cell, got, coffees, cacheRepr, updatedAt, cached, decision,
                   friendly, diag, err, thrown, prev>>

\* scheduled() has returned or rejected: its locals are gone, and the
\* tick becomes the previous tick.
TickEnd ==
    /\ pc = "done"
    /\ pc' = "idle"
    /\ prev' = [ok |-> thrown = "",
                handles |-> IF thrown = "" THEN HandleSet(coffees) ELSE {},
                kept |-> thrown = "" /\ cell = PutRepr(variant, cacheRepr)]
    /\ response' = NoResponse
    /\ startCell' = cell
    /\ got' = "" /\ coffees' = <<>> /\ cacheRepr' = <<>> /\ updatedAt' = NullDate
    /\ cached' = Absent /\ decision' = ""
    /\ friendly' = <<>> /\ diag' = <<>> /\ err' = "" /\ thrown' = ""
    /\ UNCHANGED <<preview, variant, cell>>

\* An awaited sendDiagnostic(msg) that continues at pc = next: a rejected
\* POST throws into the catch block.
AwaitDiagnostic(msg, next) ==
    \E o \in Outcomes :
        /\ diag' = Append(diag, msg)
        /\ IF o = "reject"
           THEN pc' = "catch" /\ err' = "diag"
           ELSE pc' = next /\ err' = err

\* await sendDiagnostic(env, 'Bot started')
SendStarted ==
    /\ pc = "started"
    /\ AwaitDiagnostic("Bot started", "fetch")
    /\ UNCHANGED <<preview, variant, cell, startCell, response, got, coffees, cacheRepr, updatedAt,
                   cached, decision, friendly, thrown, prev>>

\* await getAvailableCoffees(env).  Variant A hands the parsed products to
\* sendDiagnostic without awaiting it.
Fetch ==
    /\ pc = "fetch"
    /\ LET r == GetAvailableCoffees(variant, response)
       IN  /\ diag' = IF variant = "A" /\ response.status = "ok"
                      THEN Append(diag, "Received response") ELSE diag
           /\ IF r.err # ""
              THEN /\ pc' = "catch" /\ err' = r.err /\ got' = r.err
                   /\ UNCHANGED <<coffees, cacheRepr, updatedAt>>
              ELSE /\ pc' = "read" /\ err' = err /\ got' = "ok"
                   /\ coffees' = r.coffees
                   /\ cacheRepr' = CacheRepr(variant, r.coffees)
                   /\ updatedAt' = r.updatedAt
    /\ UNCHANGED <<preview, variant, cell, startCell, response, cached, decision, friendly, thrown, prev>>

\* A: await env.instant_coffee.get(CACHE_NAME); B: await cacheGet(env).
CacheRead ==
    /\ pc = "read"
    /\ cached' = ReadCache(variant, cell)
    /\ pc' = IF variant = "A" THEN "decide" ELSE "dump"
    /\ UNCHANGED <<preview, variant, cell, startCell, response, got, coffees, cacheRepr, updatedAt,
                   decision, friendly, diag, err, thrown, prev>>

\* B: await sendDiagnostic(`Cached: ...`); await sendDiagnostic(`New: ...`).
\* Building the first message throws where cachedCoffees has no join.
DiagDump ==
    /\ pc = "dump"
    /\ IF JoinThrows(cached)
       THEN pc' = "catch" /\ err' = "typeerror" /\ diag' = diag
       ELSE \E o1, o2 \in Outcomes :
              IF o1 = "reject"
              THEN pc' = "catch" /\ err' = "diag" /\ diag' = Append(diag, "Cached")
              ELSE /\ diag' = diag \o <<"Cached", "New">>
                   /\ IF o2 = "reject"
                      THEN pc' = "catch" /\ err' = "diag"
                      ELSE pc' = "decide" /\ err' = err
    /\ UNCHANGED <<preview, variant, cell, startCell, response, got, coffees, cacheRepr, updatedAt,
                   cached, decision, friendly, thrown, prev>>

\* The if of line 43 / line 193.
Decide ==
    /\ pc = "decide"
    /\ IF ShouldSuppress(variant, cached, cacheRepr)
       THEN decision' = "suppress" /\ pc' = "skip"
       ELSE decision' = "notify" /\ pc' = "notify"
    /\ UNCHANGED <<preview, variant, cell, startCell, response, got, coffees, cacheRepr, updatedAt,
                   cached, friendly, diag, err, thrown, prev>>

\* Skip with the cache put moved out of the else branch: the stored value
\* is overwritten in a suppressed tick too.
SkipAndPut ==
    /\ pc = "skip"
    /\ AwaitDiagnostic("skipping", "finish")
    /\ cell' = PutRepr(variant, cacheRepr)
    /\ UNCHANGED <<preview, variant, startCell, response, got, coffees, cacheRepr, updatedAt,
                   cached, decision, friendly, thrown, prev>>

\* await sendDiagnostic(env, 'No products changed, skipping')
Skip ==
    /\ pc = "skip"
    /\ AwaitDiagnostic("skipping", "finish")
    /\ UNCHANGED <<preview, variant, cell, startCell, response, got, coffees, cacheRepr, updatedAt,
                   cached, decision, friendly, thrown, prev>>

\* The else branch: (B: await sendDiagnostic('**New products found**'),)
\* build botMessage, put the cache without awaiting it, then
\* await sendFriendlyMessage.
Notify ==
    /\ pc = "notify"
    /\ \E o0, o \in Outcomes, p \in PutOutcomes :
         IF variant = "B" /\ o0 = "reject"
         THEN /\ diag' = Append(diag, "New products found")
              /\ pc' = "catch" /\ err' = "diag"
              /\ UNCHANGED <<cell, friendly>>
         ELSE /\ diag' = diag
                   \o (IF variant = "B" THEN <<"New products found">> ELSE <<>>)
                   \o (IF variant = "B" /\ Len(coffees) = 0 THEN <<"no longer has any">> ELSE <<>>)
              /\ cell' = IF p = "ok" THEN PutRepr(variant, cacheRepr) ELSE cell
              /\ friendly' = Append(friendly,
                     [body |-> BotMessage(variant, coffees, updatedAt), outcome |-> o])
              /\ IF o = "reject"
                 THEN pc' = "catch" /\ err' = "post"
                 ELSE pc' = "finish" /\ err' = err
    /\ UNCHANGED <<preview, variant, startCell, response, got, coffees, cacheRepr, updatedAt,
                   cached, decision, thrown, prev>>

\* await sendDiagnostic(env, 'Bot finished successfully')
Finish ==
    /\ pc = "finish"
    /\ AwaitDiagnostic("Bot finished successfully", "done")
    /\ UNCHANGED <<preview, variant, cell, startCell, response, got, coffees, cacheRepr, updatedAt,
                   cached, decision, friendly, thrown, prev>>

\* catch (error) { await sendDiagnostic(`Bot failed: ...`); throw error; }
\* A rejected POST here replaces the caught error.
Catch ==
    /\ pc = "catch"
    /\ \E o \in Outcomes :
         /\ diag' = Append(diag, "Bot failed")
         /\ thrown' = IF o = "reject" THEN "report" ELSE err
    /\ pc' = "done"
    /\ UNCHANGED <<preview, variant, cell, startCell, response, got, coffees, cacheRepr, updatedAt,
                   cached, decision, friendly, err, prev>>

Next ==
    \/ TickStart
    \/ SendStarted
    \/ Fetch
    \/ CacheRead
    \/ DiagDump
    \/ Decide
    \/ Skip
    \/ Notify
    \/ Finish
    \/ Catch
    \/ TickEnd

Spec == Init /\ [][Next]_vars

\* Texts a deployment may find under CACHE_NAME that it did not write
\* itself: the empty string, variant A's joined string, a cut-off array,
\* and valid JSON that is a number, a string, null, an object, an array of
\* numbers, or an array of handles.
CellTexts ==
    { <<>>,
      <<"a", "-", "b">>,
      <<"[", Quote, "a", Quote>>,
      <<"1">>,
      <<"0">>,
      <<Quote, "a", Quote>>,
      <<"n", "u", "l", "l">>,
      <<"{", "}">>,
      <<"[", "1", "]">>,
      <<"[", Quote, "a", Quote, ",", Quote, "b", Quote, "]">> }

InitAnyCell ==
    /\ variant \in Variants
    /\ pc = "idle"
    /\ cell \in {Absent} \cup { Stored(t) : t \in CellTexts }
    /\ startCell = cell
    /\ response = NoResponse
    /\ TickLocalsInit
    /\ prev = NoPrev
    /\ preview = NoPreview

\* The worker deployed over a cell holding any of CellTexts.
SpecAnyCell == InitAnyCell /\ [][Next]_vars

\* ------------------------------------------- getAvailableCoffees alone

\* Products that pass every check of getAvailableCoffees: one variant,
\* available or not, an image, and any timestamps up to MaxStamp.
StampedProducts ==
    { Product(c, <<Variant(c, avail, u)>>, q, <<"img">>) :
        c \in Catalog, avail \in BOOLEAN, u \in 1..MaxStamp, q \in 1..MaxStamp }

StampedListings ==
    UNION { { l \in [1..n -> StampedProducts] :
                \A i, j \in 1..n : i # j => l[i].handle # l[j].handle } :
            n \in 0..MaxProducts }

\* A tick about to call getAvailableCoffees on any of StampedListings.
InitStamped ==
    /\ variant \in Variants
    /\ pc = "fetch"
    /\ cell = Absent /\ startCell = Absent
    /\ response \in { [status |-> "ok", products |-> l] : l \in StampedListings }
    /\ TickLocalsInit
    /\ prev = NoPrev
    /\ preview = NoPreview

\* getAvailableCoffees applied to a valid listing, and nothing after it.
SpecStamped == InitStamped /\ [][Fetch]_vars

\* ------------------------------------------------- the preview endpoint

\* The image URLs a token can name.
ImageUrls == {"img", "pic"}

\* The image lists of up to MaxImages URLs.
ImageLists == UNION { [1..n -> ImageUrls] : n \in 0..MaxImages }

\* The tokens a request can carry: signed by this deployment, signed with
\* another secret, and signed by this deployment with the payload altered
\* afterwards.
Tokens ==
    { jwtSign(images, secret) : images \in ImageLists, secret \in Secrets }
    \cup { [images |-> altered, mac |-> Mac(images, JwtSecret)] :
              images \in ImageLists, altered \in ImageLists }

\* What `await fetch(imageUrl)` gives: a response with a body, one without,
\* or a rejection.
ImageOutcomes == {"body", "nobody", "reject"}

\* A request arrives: new URL(request.url).searchParams.get('payload').
PreviewRequest ==
    /\ preview.pc = "idle"
    /\ \E param \in {"missing", "empty", "token"} :
         \E token \in (IF param = "token" THEN Tokens ELSE {NoToken}) :
            preview' = [NoPreview EXCEPT !.pc = "handle", !.param = param,
                                         !.token = token]
    /\ UNCHANGED <<variant, pc, cell, startCell, response, got, coffees, cacheRepr,
                   updatedAt, cached, decision, friendly, diag, err, thrown, prev>>

\* `if (!payload) return new Response('No payload provided', { status: 400 })`,
\* then JwtPayloadSchema.parse(jwt.verify(payload, env.JWT_SECRET)), whose
\* error leaves the handler, then the start of compositeImages up to the
\* blank canvas.
PreviewVerify ==
    /\ preview.pc = "handle"
    /\ preview' =
         IF preview.param # "token"
         THEN [preview EXCEPT !.pc = "done", !.status = 400]
         ELSE IF ~jwtVerifies(preview.token, JwtSecret)
         THEN [preview EXCEPT !.pc = "done", !.fault = "JsonWebTokenError"]
         ELSE [preview EXCEPT !.pc = "draw", !.images = preview.token.images,
                              !.canvas = Canvas(Len(preview.token.images))]
    /\ UNCHANGED <<variant, pc, cell, startCell, response, got, coffees, cacheRepr,
                   updatedAt, cached, decision, friendly, diag, err, thrown, prev>>

\* One turn of `for (const [index, imageUrl] of imageUrls.entries())`.
PreviewDraw ==
    /\ preview.pc = "draw"
    /\ Len(preview.draws) < Len(preview.images)
    /\ LET index    == Len(preview.draws)
           imageUrl == preview.images[index + 1]
       IN \E o \in ImageOutcomes :
            preview' =
              IF o = "reject"
              THEN [preview EXCEPT !.pc = "done", !.fault = "TypeError",
                                   !.fetched = Append(@, imageUrl)]
              ELSE IF o = "nobody"
              THEN [preview EXCEPT !.pc = "done", !.fault = "Failed to fetch image",
                                   !.fetched = Append(@, imageUrl)]
              ELSE [preview EXCEPT !.fetched = Append(@, imageUrl),
                                   !.draws = Append(@, Draw(index, imageUrl))]
    /\ UNCHANGED <<variant, pc, cell, startCell, response, got, coffees, cacheRepr,
                   updatedAt, cached, decision, friendly, diag, err, thrown, prev>>

\* `return await composite.output({ format: 'image/avif' })` and
\* `return imageTransformer.response()`.
PreviewOutput ==
    /\ preview.pc = "draw"
    /\ Len(preview.draws) = Len(preview.images)
    /\ preview' = [preview EXCEPT !.pc = "done", !.status = 200]
    /\ UNCHANGED <<variant, pc, cell, startCell, response, got, coffees, cacheRepr,
                   updatedAt, cached, decision, friendly, diag, err, thrown, prev>>

\* The request is over; the endpoint waits for the next one.
PreviewEnd ==
    /\ preview.pc = "done"
    /\ preview' = NoPreview
    /\ UNCHANGED <<variant, pc, cell, startCell, response, got, coffees, cacheRepr,
                   updatedAt, cached, decision, friendly, diag, err, thrown, prev>>

NextPreview ==
    \/ PreviewRequest
    \/ PreviewVerify
    \/ PreviewDraw
    \/ PreviewOutput
    \/ PreviewEnd

\* The worker serving preview requests, no tick in progress.
SpecPreview == Init /\ [][NextPreview]_vars

\* ----------------------------------------------------------------- claims

\* The messages handed to sendDiagnostic in this tick, as a set.
DiagSet == { diag[i] : i \in 1..Len(diag) }

\* The tick has ended: scheduled() returned or rejected.
TickDone == pc = "done"

\* C1: variant A, in every tick whose fetch and validation succeed: at most
\* one user-facing POST is made, only after a successful fetch; when the
\* tick has ended, one was made if and only if the joined-handle string of
\* the listing differs from the cell's value at the start of the tick, an
\* absent cell counting as different.
C1_NotifyIffReprDiffers ==
    variant = "A" =>
        LET joined == Join(Handles(coffees), <<"-">>)
            differs == ~startCell.some \/ startCell.text # joined
        IN  /\ Len(friendly) <= 1
            /\ (friendly # <<>> => got = "ok" /\ differs)
            /\ (TickDone /\ got = "ok" => (friendly # <<>> <=> differs))

\* C1 witness: a variant A tick that ended without a user-facing POST
\* because the cell held exactly the non-empty joined string of its listing.
C1_Witness ==
    /\ variant = "A" /\ TickDone /\ got = "ok" /\ thrown = ""
    /\ startCell.some /\ Len(coffees) = 2
    /\ startCell.text = Join(Handles(coffees), <<"-">>)
    /\ friendly = <<>>
\* The handle array, as the value JSON.parse yields for its stored text.
AsJsArray(handles) == JsArr([i \in 1..Len(handles) |-> JsStr(handles[i])])

\* C2 (as stated): variant B, in every tick whose fetch and validation
\* succeed, a user-facing POST is made if and only if the stored value is
\* absent or some current handle is not in the stored handle sequence.
C2_NotifyIffNewHandle ==
    variant = "B" /\ TickDone /\ got = "ok" =>
        LET stored == cacheGet(startCell)
            current == Handles(coffees)
            new == \E i \in 1..Len(current) :
                     \A j \in 1..Len(stored.e) : stored.e[j] # JsStr(current[i])
        IN  friendly # <<>> <=> (stored.t = "null" \/ new)

C4_CacheWrittenOnlyIfNotified ==
    TickDone /\ cell # startCell =>
        \E i \in 1..Len(friendly) : friendly[i].outcome = "ok"

\* The handles of the products of the listing whose variant is available.
AvailableHandles ==
    { response.products[i].handle :
        i \in { k \in 1..Len(response.products) :
                  \E n \in 1..Len(response.products[k].variants) :
                     response.products[k].variants[n].available } }

\* C5 (as stated): for every valid listing the Coffee list holds exactly
\* the available products and is in ascending title order, and so are the
\* item lines of the message.
C5_CoffeesSortedByTitle ==
    got = "ok" =>
        /\ HandleSet(coffees) = AvailableHandles
        /\ \A i, j \in 1..Len(coffees) :
             i < j => LocaleCompare(coffees[i].title, coffees[j].title) <= 0

\* Some product of the listing has no variant or more than one.
BadVariantCount ==
    \E i \in 1..Len(response.products) : Len(response.products[i].variants) # 1

\* C6 (as stated): when getAvailableCoffees is given a listing with a
\* product of zero or several variants it returns no Coffee list, no
\* user-facing POST is made, the stored value stays, and the tick ends with
\* 'Bot failed' handed to the diagnostics channel and that error rethrown.
C6_VariantCountFailsTick ==
    got # "" /\ response.status = "ok" /\ BadVariantCount =>
        /\ got # "ok" /\ coffees = <<>>
        /\ friendly = <<>>
        /\ cell = startCell
        /\ (TickDone => "Bot failed" \in DiagSet /\ thrown = got)

\* The parsed value is an array of strings.
IsHandleSequence(val) ==
    val.t = "arr" /\ \A j \in 1..Len(val.e) : val.e[j].t = "str"

\* C7 (as stated): variant B, whatever text the cell holds, reading the
\* cache and deciding raises nothing, and a stored value that is not a
\* handle sequence is treated as absent: the tick takes the notify branch.
C7_CorruptCacheNeverRaises ==
    variant = "B" /\ got = "ok" =>
        /\ err # "typeerror"
        /\ (decision # "" /\ ~IsHandleSequence(cacheGet(startCell)) => decision = "notify")

\* C8 (as stated): variant A, for two consecutive ticks that end without
\* an error, the first of which left its joined string in the cell: the
\* second makes a user-facing POST if and only if its set of available
\* handles differs from the first's.
C8_NotifyIffHandleSetChanged ==
    variant = "A" /\ TickDone /\ thrown = "" /\ prev.ok /\ prev.kept =>
        (friendly # <<>> <=> HandleSet(coffees) # prev.handles)

\* C9 (as stated): a user-facing POST answered with a non-2xx status fails
\* the tick: 'Bot finished successfully' is not reported and scheduled()
\* rejects.
C9_Non2xxFailsTick ==
    (\E i \in 1..Len(friendly) : friendly[i].outcome = "non2xx") =>
        /\ "Bot finished successfully" \notin DiagSet
        /\ (TickDone => thrown # "")

\* A fatal error of the scheduled path: getAvailableCoffees failed (fetch,
\* schema, variant count), or the user-facing POST was not accepted.
FatalError ==
    \/ got \notin {"", "ok"}
    \/ \E i \in 1..Len(friendly) : friendly[i].outcome # "ok"

\* C10 (as stated): a tick with a fatal error ends with 'Bot failed' handed
\* to the diagnostics channel, the original error rethrown, and no
\* 'Bot finished successfully'.
C10_FatalErrorReportedAndRethrown ==
    TickDone /\ FatalError =>
        /\ "Bot failed" \in DiagSet
        /\ thrown = (IF got \notin {"", "ok"} THEN got ELSE "post")
        /\ "Bot finished successfully" \notin DiagSet

\* C11 (as stated): a failed POST of a status diagnostic ('Bot started', the
\* cached / new dump, the skip notice, 'Bot finished successfully') is never
\* the error that ends the tick, and every tick that has ended has fetched
\* the listing.
C11_DiagnosticsFireAndForget ==
    /\ err # "diag"
    /\ (TickDone => got # "")

\* The timestamps updatedAt is taken over: the updated_at of every variant
\* (variant A) or the published_at of every product (variant B).
StampsConsidered(v, products) ==
    IF v = "A"
    THEN UNION { { products[i].variants[j].updated_at :
                     j \in 1..Len(products[i].variants) } :
                 i \in 1..Len(products) }
    ELSE { products[i].published_at : i \in 1..Len(products) }

\* The orders a list of n products can come in.
Orders(n) == { f \in [1..n -> 1..n] : \A i, j \in 1..n : i # j => f[i] # f[j] }

\* C12: once getAvailableCoffees has returned for a valid listing, updatedAt
\* is null if the listing has no product; otherwise it is the greatest of
\* the timestamps considered, over every product, available or sold out,
\* and getAvailableCoffees returns the same updatedAt for the products in
\* any other order.
C12_UpdatedAtIsLatestOfAll ==
    got = "ok" =>
        LET products == response.products
            stamps   == StampsConsidered(variant, products)
        IN  /\ (products = <<>> => updatedAt = NullDate)
            /\ (products # <<>> =>
                    /\ updatedAt \in stamps
                    /\ \A t \in stamps : t <= updatedAt)
            /\ \A f \in Orders(Len(products)) :
                   GetAvailableCoffees(variant,
                       [response EXCEPT !.products = [i \in 1..Len(products) |-> products[f[i]]]]
                   ).updatedAt = updatedAt

\* C12 witness: the first of two products is sold out and carries the
\* strictly latest timestamp, and updatedAt is that timestamp.
C12_Witness ==
    /\ got = "ok"
    /\ Len(response.products) = 2
    /\ ~response.products[1].variants[1].available
    /\ response.products[2].variants[1].available
    /\ LET stamp(q) == IF variant = "A" THEN q.variants[1].updated_at ELSE q.published_at
       IN  /\ stamp(response.products[1]) > stamp(response.products[2])
           /\ updatedAt = stamp(response.products[1])

\* C13 (as stated): in either variant, every message posted to the
\* user-facing webhook for an empty Coffee list contains the line saying
\* that no coffee is available, and no header, item or footer line.
C13_EmptyListPostsNoneLine ==
    \A i \in 1..Len(friendly) :
        coffees = <<>> =>
            LET body == friendly[i].body
            IN  /\ \E k \in 1..Len(body) : body[k] = NoneLine
                /\ \A k \in 1..Len(body) : body[k].kind \notin {"header", "item", "footer"}

\* C14 (as stated): a preview request whose 'payload' parameter is missing
\* or empty, or whose token fails verification, fetches no image and builds
\* no composite, raises no fault, and ends with a returned 400 response.
C14_BadRequestAnswered400 ==
    preview.pc # "idle"
    /\ (preview.param # "token" \/ ~jwtVerifies(preview.token, JwtSecret)) =>
        /\ preview.fetched = <<>>
        /\ preview.draws = <<>>
        /\ preview.canvas = NoCanvas
        /\ preview.fault = ""
        /\ (preview.pc = "done" => preview.status = 400)

\* C15: for a verified list of N >= 1 images, the canvas is
\* tile*N + spacing*(N+1) wide and tile + 2*spacing high; the k-th tile
\* drawn is the k-th image of the list, a tile-sized square at
\* left = spacing + (k-1)*(tile+spacing), top = spacing; every tile drawn
\* lies inside the canvas, no two overlap, neighbours are exactly spacing
\* apart, and the first, the last and every tile's top and bottom are
\* exactly spacing away from the canvas edge.
C15_TilesLaidOutInCanvas ==
    LET N      == Len(preview.images)
        d      == preview.draws
        canvas == preview.canvas
        tile   == squareSize
        right(k)  == d[k].left + d[k].width
        bottom(k) == d[k].top + d[k].height
    IN  N >= 1 /\ preview.pc \in {"draw", "done"} =>
            /\ canvas.width = tile * N + spacing * (N + 1)
            /\ canvas.height = tile + 2 * spacing
            /\ Len(d) <= N
            /\ \A k \in 1..Len(d) :
                  /\ d[k].url = preview.images[k]
                  /\ d[k].left = spacing + (k - 1) * (tile + spacing)
                  /\ d[k].top = spacing
                  /\ d[k].width = tile /\ d[k].height = tile
                  /\ 0 <= d[k].left /\ right(k) <= canvas.width
                  /\ 0 <= d[k].top /\ bottom(k) <= canvas.height
                  /\ canvas.height - bottom(k) = spacing
            /\ \A j, k \in 1..Len(d) : j < k => right(j) <= d[k].left
            /\ \A k \in 1..(Len(d) - 1) : d[k + 1].left - right(k) = spacing
            /\ (Len(d) >= 1 => d[1].left = spacing)
            /\ (Len(d) = N => canvas.width - right(N) = spacing)

\* C15 witness: a composite of at least two tiles has been output.
C15_Witness ==
    /\ preview.pc = "done"
    /\ preview.status = 200
    /\ Len(preview.draws) >= 2
    /\ Len(preview.draws) = Len(preview.images)

\* C16 (as stated): the deployed worker decides by Policy C.  In a tick
\* that reaches the decision with the cell holding the non-empty handle set
\* of the previous tick: an empty current set notifies, a non-empty current
\* set contained in the stored one (or equal to it) is suppressed, and the
\* cell is overwritten only if a user-facing POST was made.
C16_PolicyCDecides ==
    TickDone /\ decision # "" /\ prev.kept /\ prev.handles # {} =>
        LET current == HandleSet(coffees)
            stored  == prev.handles
        IN  /\ (current = {} => decision = "notify")
            /\ (current # {} /\ current \subseteq stored => decision = "suppress")
            /\ (cell # startCell => friendly # <<>>)

\* C17 (as stated): variant B, after every tick that ends without an
\* error, every handle available in the tick's listing is in the stored
\* handle sequence, and the stored value has changed only if the tick took
\* the notify branch.
C17_AvailableHandlesStored ==
    variant = "B" /\ TickDone /\ thrown = "" =>
        LET stored == cacheGet(cell)
        IN  /\ \A i \in 1..Len(coffees) :
                  \E j \in 1..Len(stored.e) : stored.e[j] = JsStr(coffees[i].handle)
            /\ (cell # startCell => decision = "notify")

====
